---- MODULE Spec2Model ----
(***************************************************************************)
(* BrokerClient (src/BrokerClient.hpp, src/BrokerClient.cpp): one client   *)
(* account with a cash balance, a portfolio, a FIFO queue of outstanding   *)
(* buy orders per security and a transaction log, mutated by SubmitOrder.  *)
(*                                                                         *)
(* Number formats.  The code keeps quantities in uint32_t and money in     *)
(* double.  Both are modelled with their rounding and wrap-around but at   *)
(* a reduced width: a quantity is an unsigned integer of UIntBits bits     *)
(* (arithmetic modulo 2^UIntBits), a finite double is a binary floating    *)
(* point number with MantBits significant bits whose smallest step is      *)
(* 2^-FracBits, rounded to nearest, ties to even.  A finite double x is    *)
(* held as the integer x * 2^FracBits.  UIntBits < MantBits, as 32 < 53:   *)
(* every quantity converts to double exactly.                              *)
(***************************************************************************)
EXTENDS Integers, Sequences, FiniteSets, TLC

\* ---------------------------------------------------------------- bounds
UIntBits == 2
MantBits == 3
FracBits == 1
MaxLog == 3

\* ------------------------------------------------------------ arithmetic
RECURSIVE Pow2(_)
Pow2(n) == IF n = 0 THEN 1 ELSE 2 * Pow2(n - 1)

\* uint32_t: number of values, and the wrap-around of + and -
UIntMod == Pow2(UIntBits)
UInt == 0 .. (UIntMod - 1)
UAdd(a, b) == (a + b) % UIntMod
USub(a, b) == (a - b + UIntMod) % UIntMod

\* 1.0 in the scaled representation of a finite double
Unit == Pow2(FracBits)

\* num/den (num >= 0, den > 0) rounded to the nearest integer, ties to even
RoundNearestEven(num, den) ==
  LET q == num \div den
      r == num % den
  IN  IF 2 * r < den THEN q
      ELSE IF 2 * r > den THEN q + 1
      ELSE IF q % 2 = 0 THEN q ELSE q + 1

\* the exponent at which num/den has at most MantBits significant bits
RECURSIVE ShiftOf(_, _, _)
ShiftOf(num, den, s) ==
  IF num \div (den * Pow2(s)) < Pow2(MantBits) THEN s
  ELSE ShiftOf(num, den, s + 1)

\* num/den (den > 0) rounded to a representable finite double
Round(num, den) ==
  LET a == IF num < 0 THEN -num ELSE num
      s == ShiftOf(a, den, 0)
      m == Pow2(s) * RoundNearestEven(a, den * Pow2(s))
  IN  IF num < 0 THEN -m ELSE m

\* finite double arithmetic (operands and results scaled by Unit)
FAdd(a, b) == Round(a + b, 1)
FSub(a, b) == Round(a - b, 1)
FMul(a, b) == Round(a * b, Unit)
FDiv(a, b) == IF b < 0 THEN Round(-(a * Unit), -b) ELSE Round(a * Unit, b)

\* (double)q for a uint32_t q
ToDouble(q) == Round(q * Unit, 1)

\* doubles with the IEEE special values
Fin(x) == [cls |-> "fin", v |-> x]
NaN == [cls |-> "nan", v |-> 0]
PInf == [cls |-> "pinf", v |-> 0]
NInf == [cls |-> "ninf", v |-> 0]

\* -1, 0, 1: the sign of a non-NaN double
Sgn(d) ==
  IF d.cls = "pinf" THEN 1
  ELSE IF d.cls = "ninf" THEN -1
  ELSE IF d.v > 0 THEN 1 ELSE IF d.v < 0 THEN -1 ELSE 0

InfOf(s) == IF s > 0 THEN PInf ELSE NInf

DNeg(d) ==
  IF d.cls = "fin" THEN Fin(-d.v)
  ELSE IF d.cls = "pinf" THEN NInf
  ELSE IF d.cls = "ninf" THEN PInf
  ELSE NaN

DAdd(a, b) ==
  IF a.cls = "nan" \/ b.cls = "nan" THEN NaN
  ELSE IF a.cls = "fin" /\ b.cls = "fin" THEN Fin(FAdd(a.v, b.v))
  ELSE IF a.cls = "fin" THEN b
  ELSE IF b.cls = "fin" THEN a
  ELSE IF a.cls = b.cls THEN a ELSE NaN

DSub(a, b) == DAdd(a, DNeg(b))

DMul(a, b) ==
  IF a.cls = "nan" \/ b.cls = "nan" THEN NaN
  ELSE IF a.cls = "fin" /\ b.cls = "fin" THEN Fin(FMul(a.v, b.v))
  ELSE IF Sgn(a) = 0 \/ Sgn(b) = 0 THEN NaN
  ELSE InfOf(Sgn(a) * Sgn(b))

\* a / b where the divisor b is never negative (a price or a converted
\* quantity); x/0 is an infinity or NaN, never a trap
DDiv(a, b) ==
  IF a.cls = "nan" \/ b.cls = "nan" THEN NaN
  ELSE IF a.cls # "fin" /\ b.cls # "fin" THEN NaN
  ELSE IF a.cls # "fin" THEN a
  ELSE IF b.cls # "fin" THEN Fin(0)
  ELSE IF b.v = 0 THEN (IF a.v = 0 THEN NaN ELSE InfOf(Sgn(a)))
  ELSE Fin(FDiv(a.v, b.v))

\* a < b on doubles: false when either is NaN
DLess(a, b) ==
  /\ a.cls # "nan"
  /\ b.cls # "nan"
  /\ IF a.cls = "fin" /\ b.cls = "fin" THEN a.v < b.v
     ELSE IF a.cls = b.cls THEN FALSE
     ELSE a.cls = "ninf" \/ b.cls = "pinf"

\* std::min(a, b): (b < a) ? b : a
StdMin(a, b) == IF DLess(b, a) THEN b ELSE a

\* the values a double-to-uint32_t conversion can produce: the truncation
\* when it fits; when it does not (undefined behaviour) either the
\* saturated value or the low bits of the truncated integer, 0 for an
\* infinity or NaN
ToUInt(d) ==
  IF d.cls # "fin" THEN {0}
  ELSE IF d.v <= -Unit THEN {0, (UIntMod - (((-d.v) \div Unit) % UIntMod)) % UIntMod}
  ELSE IF d.v < 0 THEN {0}
  ELSE IF d.v < UIntMod * Unit THEN {d.v \div Unit}
  ELSE {UIntMod - 1, (d.v \div Unit) % UIntMod}

\* ----------------------------------------------------------------- inputs
Securities == {"AAPL", "MSFT"}
\* order quantities: none, one, two, and the largest uint32_t
Quantities == {0, 1, 2, UIntMod - 1}
\* order prices, in steps of 1/Unit: a free security and a priced one
Prices == {0, 5}
\* constructor arguments, in steps of 1/Unit
InitialCash == {0, 14}
NegativeCash == {-14}

\* ------------------------------------------------------------------ state
\* double, always finite in this model: held as the scaled integer
VARIABLE cashBalance_
\* map: held security -> SecurityPosition
VARIABLE portfolio_
\* vector<Order>
VARIABLE transactions_
\* map: security -> queue<Order>
VARIABLE outstandingBuyOrderMap_
\* TRUE once front() was read on an empty queue
VARIABLE fault
\* the constructor's argument
VARIABLE initialCash
\* the latest SubmitOrder call: its argument, the value returned, the cash
\* balance it started from and whether the security was then held
VARIABLE last

vars == <<cashBalance_, portfolio_, transactions_, outstandingBuyOrderMap_,
          fault, initialCash, last>>

\* struct Order, with its SecurityPosition flattened; price is finite
Order(kind, name, quantity, price) ==
  [kind |-> kind, name |-> name, quantity |-> quantity, price |-> price]

\* struct SecurityPosition as stored in the portfolio; price is a double
SecurityPosition(name, quantity, price) ==
  [name |-> name, quantity |-> quantity, price |-> price]

NoCall == [kind |-> "None", name |-> "", quantity |-> 0, price |-> 0,
           ret |-> 0, cashBefore |-> 0, heldBefore |-> FALSE, divisor |-> -1]

\* an erase that empties the map
MapErase_All(m, k) == << >>

\* std::map: insert or overwrite one key, erase one key
MapPut(m, k, val) == [x \in DOMAIN m \cup {k} |-> IF x = k THEN val ELSE m[x]]
MapErase(m, k) == [x \in DOMAIN m \ {k} |-> m[x]]

\* BrokerClient(cashBalance)
InitWith(cash) ==
  /\ cashBalance_ = cash
  /\ portfolio_ = << >>
  /\ transactions_ = << >>
  /\ outstandingBuyOrderMap_ = << >>
  /\ fault = FALSE
  /\ initialCash = cash
  /\ last = NoCall

Init == \E cash \in InitialCash : InitWith(cash)

InitAnyCash == \E cash \in InitialCash \cup NegativeCash : InitWith(cash)

\* the record of a call in `last`; divisor is the divisor HandleSell
\* evaluates its average price with, -1 for a call that does not reach it
CallRecord(order, ret) ==
  [kind |-> order.kind, name |-> order.name, quantity |-> order.quantity,
   price |-> order.price, ret |-> ret, cashBefore |-> cashBalance_,
   heldBefore |-> order.name \in DOMAIN portfolio_, divisor |-> -1]

\* the weighted average price HandleBuy stores for a security already held
WeightedPrice(order, position) ==
  DDiv(DAdd(Fin(FMul(ToDouble(order.quantity), order.price)),
            DMul(Fin(ToDouble(position.quantity)), position.price)),
       Fin(ToDouble(UAdd(order.quantity, position.quantity))))

\* HandleBuy: the portfolio after the buy
BuyPortfolio(order) ==
  IF order.name \in DOMAIN portfolio_
  THEN LET position == portfolio_[order.name]
       IN  MapPut(portfolio_, order.name,
                  SecurityPosition(order.name,
                                   UAdd(position.quantity, order.quantity),
                                   WeightedPrice(order, position)))
  ELSE MapPut(portfolio_, order.name,
              SecurityPosition(order.name, order.quantity, Fin(order.price)))

\* a buy that does not push its lot on the queue
BuyQueues_NoPush(order) ==
  LET queue == IF order.name \in DOMAIN outstandingBuyOrderMap_
               THEN outstandingBuyOrderMap_[order.name] ELSE << >>
  IN  MapPut(outstandingBuyOrderMap_, order.name, queue)

\* HandleBuy: the queues after the buy
BuyQueues(order) ==
  LET queue == IF order.name \in DOMAIN outstandingBuyOrderMap_
               THEN outstandingBuyOrderMap_[order.name] ELSE << >>
  IN  MapPut(outstandingBuyOrderMap_, order.name, Append(queue, order))

\* a buy that charges the price once, whatever the quantity
BuyCash_PriceOnly(order) == FSub(cashBalance_, order.price)

\* HandleBuy: the cash balance after the buy
BuyCash(order) ==
  FSub(cashBalance_, FMul(order.price, ToDouble(order.quantity)))

\* HandleBuy(order)
HandleBuy(order) ==
  /\ portfolio_' = BuyPortfolio(order)
  /\ outstandingBuyOrderMap_' = BuyQueues(order)
  /\ cashBalance_' = BuyCash(order)
  /\ transactions_' = Append(transactions_, order)
  /\ UNCHANGED fault

\* HandleSell: the loop that removes buy orders from the queue until as
\* many shares are removed as are sold.  Result: the queue, the value
\* removed, and whether front() was read on an empty queue.
RECURSIVE ConsumeBuyOrders(_, _, _, _)
ConsumeBuyOrders(queue, quantity, buyQuantityRemoved, buyValueRemoved) ==
  IF ~(buyQuantityRemoved < quantity)
  THEN [queue |-> queue, value |-> buyValueRemoved, emptyFront |-> FALSE]
  ELSE IF queue = << >>
  THEN [queue |-> queue, value |-> buyValueRemoved, emptyFront |-> TRUE]
  ELSE LET buyOrder == Head(queue)
           rest == USub(quantity, buyQuantityRemoved)
       IN  IF rest >= buyOrder.quantity
           THEN ConsumeBuyOrders(
                  Tail(queue), quantity,
                  UAdd(buyQuantityRemoved, buyOrder.quantity),
                  FAdd(buyValueRemoved,
                       FMul(ToDouble(buyOrder.quantity), buyOrder.price)))
           ELSE ConsumeBuyOrders(
                  <<[buyOrder EXCEPT !.quantity = USub(buyOrder.quantity, rest)]>>
                    \o Tail(queue),
                  quantity, quantity,
                  FAdd(buyValueRemoved, FMul(ToDouble(rest), buyOrder.price)))

\* an average that takes the shares sold off at the price of the sale
SellPrice_AtSalePrice(order, position, buyValueRemoved) ==
  DDiv(DSub(DMul(position.price, Fin(ToDouble(position.quantity))),
            Fin(FMul(ToDouble(order.quantity), order.price))),
       Fin(ToDouble(USub(position.quantity, order.quantity))))

\* HandleSell: the divisor of the average price, position.quantity -
\* order.position.quantity in uint32_t
SellDivisor(order, position) == USub(position.quantity, order.quantity)

\* HandleSell: the average price stored after the sale, evaluated for
\* every sale, before the test for an emptied position
SellPrice(order, position, buyValueRemoved) ==
  DDiv(DSub(DMul(position.price, Fin(ToDouble(position.quantity))),
            Fin(buyValueRemoved)),
       Fin(ToDouble(SellDivisor(order, position))))

\* HandleSell: the portfolio after the sale; the position gets its new
\* price and quantity and is erased when the quantity is 0
SellPortfolio(order, buyValueRemoved) ==
  LET position == portfolio_[order.name]
      sold == SecurityPosition(order.name,
                               USub(position.quantity, order.quantity),
                               SellPrice(order, position, buyValueRemoved))
  IN  IF sold.quantity = 0
      THEN MapErase(portfolio_, order.name)
      ELSE MapPut(portfolio_, order.name, sold)

\* HandleSell: the cash balance after the sale
SellCash(order) ==
  FAdd(cashBalance_, FMul(order.price, ToDouble(order.quantity)))

\* HandleSell(order)
HandleSell(order) ==
  LET queue == IF order.name \in DOMAIN outstandingBuyOrderMap_
               THEN outstandingBuyOrderMap_[order.name] ELSE << >>
      c == ConsumeBuyOrders(queue, order.quantity, 0, 0)
  IN  IF c.emptyFront
      THEN /\ fault' = TRUE
           /\ UNCHANGED <<cashBalance_, portfolio_, transactions_,
                          outstandingBuyOrderMap_>>
      ELSE /\ outstandingBuyOrderMap_' =
                MapPut(outstandingBuyOrderMap_, order.name, c.queue)
           /\ portfolio_' = SellPortfolio(order, c.value)
           /\ cashBalance_' = SellCash(order)
           /\ transactions_' = Append(transactions_, order)
           /\ UNCHANGED fault

\* SubmitOrder, case Buy: the quantities the conversion to uint32_t of
\* min((double)quantity, cash / price) can give
BuyQuantities(order) ==
  ToUInt(StdMin(Fin(ToDouble(order.quantity)),
                DDiv(Fin(cashBalance_), Fin(order.price))))

\* SubmitOrder(order), order.kind = Buy
SubmitBuy(name, quantity, price) ==
  LET order == Order("Buy", name, quantity, price)
  IN  \E quantityTransacted \in BuyQuantities(order) :
        /\ last' = CallRecord(order, quantityTransacted)
        /\ IF quantityTransacted = 0
           THEN UNCHANGED <<cashBalance_, portfolio_, transactions_,
                            outstandingBuyOrderMap_, fault>>
           ELSE HandleBuy(Order("Buy", name, quantityTransacted, price))

\* a min that does not cap at the second argument
UMin_NoCap(a, b) == a

\* std::min on uint32_t
UMin(a, b) == IF b < a THEN b ELSE a

\* SubmitOrder, case Sell, for a security found in the portfolio
SellHeld(order) ==
  LET quantityTransacted ==
        UMin(order.quantity, portfolio_[order.name].quantity)
      completedOrder ==
        Order("Sell", order.name, quantityTransacted, order.price)
  IN  /\ last' = [CallRecord(order, quantityTransacted) EXCEPT
                    !.divisor = SellDivisor(completedOrder,
                                            portfolio_[order.name])]
      /\ HandleSell(completedOrder)

\* a Sell without the look-up of the security: for a security not held,
\* operator[] makes an empty position and an empty queue, the sale of 0
\* shares erases the position again and is logged
SubmitSell_NoLookup(name, quantity, price) ==
  LET order == Order("Sell", name, quantity, price)
  IN  IF name \notin DOMAIN portfolio_
      THEN /\ last' = CallRecord(order, 0)
           /\ transactions_' = Append(transactions_, Order("Sell", name, 0, price))
           /\ outstandingBuyOrderMap_' =
                IF name \in DOMAIN outstandingBuyOrderMap_
                THEN outstandingBuyOrderMap_
                ELSE MapPut(outstandingBuyOrderMap_, name, << >>)
           /\ UNCHANGED <<cashBalance_, portfolio_, fault>>
      ELSE SellHeld(order)

\* SubmitOrder(order), order.kind = Sell
SubmitSell(name, quantity, price) ==
  LET order == Order("Sell", name, quantity, price)
  IN  IF name \notin DOMAIN portfolio_
      THEN /\ last' = CallRecord(order, 0)
           /\ UNCHANGED <<cashBalance_, portfolio_, transactions_,
                          outstandingBuyOrderMap_, fault>>
      ELSE SellHeld(order)

\* the model makes no call once the log has MaxLog entries or after
\* undefined behaviour in HandleSell, and takes no step to a cash balance
\* of magnitude above MaxCash
MaxCash == 64
Running == ~fault /\ Len(transactions_) < MaxLog
InRange == cashBalance_' <= MaxCash /\ cashBalance_' >= -MaxCash

Next ==
  \E name \in Securities, quantity \in Quantities, price \in Prices :
    \/ Running /\ SubmitBuy(name, quantity, price) /\ InRange
               /\ UNCHANGED initialCash
    \/ Running /\ SubmitSell(name, quantity, price) /\ InRange
               /\ UNCHANGED initialCash

Spec == Init /\ [][Next]_vars

SpecAnyCash == InitAnyCash /\ [][Next]_vars

\* ------------------------------------------------------------ properties
\* a call has been made
Called == last.kind # "None"

\* the quantity the portfolio reports for a security, 0 when absent
PortfolioQuantity(name) ==
  IF name \in DOMAIN portfolio_ THEN portfolio_[name].quantity ELSE 0

RECURSIVE SumQuantities(_)
SumQuantities(queue) ==
  IF queue = << >> THEN 0
  ELSE Head(queue).quantity + SumQuantities(Tail(queue))

\* the true total of the lots in a security's queue, 0 when it has none
QueueQuantity(name) ==
  IF name \in DOMAIN outstandingBuyOrderMap_
  THEN SumQuantities(outstandingBuyOrderMap_[name]) ELSE 0

\* the account state a caller can observe or that decides later fills
Ledger == <<cashBalance_, portfolio_, outstandingBuyOrderMap_, transactions_>>

\* C1: with a non-negative initial cash balance, the cash balance is never
\* negative, whatever orders are submitted.
C1_CashNeverNegative == cashBalance_ >= 0

\* C2: for every security, the portfolio quantity (0 when the entry is
\* absent) equals the sum of the quantities of the lots in its queue.
C2_QuantityEqualsQueueSum ==
  \A name \in Securities : PortfolioQuantity(name) = QueueQuantity(name)

\* C3: a call appends to the log exactly when its fill is non-zero, and then
\* appends the order with its kind, security, filled quantity and submitted
\* price; the log changes in no other way, so zero fills never appear in it
\* and earlier entries stay.
C3_LogIsNonZeroFills ==
  [][IF last'.ret # 0
     THEN transactions_' =
            Append(transactions_,
                   Order(last'.kind, last'.name, last'.ret, last'.price))
     ELSE transactions_' = transactions_]_vars

\* C4: a call that returns 0 leaves the cash balance, the portfolio, every
\* queue and the log unchanged.
C4_ZeroFillChangesNothing ==
  [][last'.ret = 0 => Ledger' = Ledger]_vars

\* the largest whole number of shares the cash balance pays for at a price
\* above 0, in exact arithmetic: floor(cash / price)
Affordable(cash, price) == cash \div price

Min(a, b) == IF a < b THEN a ELSE b

\* C5: a Buy at a price above 0 fills min(requested, floor(cash / price));
\* when the request exceeds the affordable quantity the cash balance after
\* the buy is in [0, price).
C5_BuyFillsAffordable ==
  (last.kind = "Buy" /\ last.price > 0) =>
    /\ last.ret = Min(last.quantity, Affordable(last.cashBefore, last.price))
    /\ last.quantity > Affordable(last.cashBefore, last.price) =>
         (0 <= cashBalance_ /\ cashBalance_ < last.price)

\* C6: a Sell of a security present in the portfolio fills
\* min(requested, held); a request above the held quantity removes the
\* entry, a request below it reduces the held quantity by the request.
C6_SellFillsHeld ==
  [][(last'.kind = "Sell" /\ last'.name \in DOMAIN portfolio_) =>
       LET held == portfolio_[last'.name].quantity
       IN  /\ last'.ret = Min(last'.quantity, held)
           /\ last'.quantity > held => last'.name \notin DOMAIN portfolio_'
           /\ last'.quantity < held =>
                /\ last'.name \in DOMAIN portfolio_'
                /\ portfolio_'[last'.name].quantity = held - last'.quantity]_vars

\* more was asked than was held: the held quantity was sold, the entry is gone
C6_Witness ==
  /\ last.kind = "Sell"
  /\ last.heldBefore
  /\ last.ret > 0
  /\ last.quantity > last.ret
  /\ last.name \notin DOMAIN portfolio_

\* C7: a Sell of a security that is not in the portfolio returns 0 and
\* leaves the cash balance, the portfolio, the queues and the log unchanged.
C7_SellNotHeldChangesNothing ==
  [][(last'.kind = "Sell" /\ last'.name \notin DOMAIN portfolio_) =>
       (last'.ret = 0 /\ Ledger' = Ledger)]_vars

\* a security bought, sold off, and then asked to be sold again
C7_Witness ==
  /\ last.kind = "Sell"
  /\ ~last.heldBefore
  /\ last.quantity > 0
  /\ last.ret = 0
  /\ \E i \in DOMAIN transactions_ :
       transactions_[i].kind = "Sell" /\ transactions_[i].name = last.name

\* C8: for any initial cash balance, negative ones included, the value
\* returned is between 0 and the requested quantity.
C8_FillWithinRequest ==
  Called => (0 <= last.ret /\ last.ret <= last.quantity)

\* the log applied to a cash balance entry by entry, in double arithmetic
RECURSIVE ApplyLog(_, _)
ApplyLog(cash, log) ==
  IF log = << >> THEN cash
  ELSE LET order == Head(log)
           value == FMul(order.price, ToDouble(order.quantity))
       IN  ApplyLog(IF order.kind = "Buy" THEN FSub(cash, value)
                    ELSE FAdd(cash, value),
                    Tail(log))

\* the exact total of quantity x price over the log entries of one kind
RECURSIVE ExactValue(_, _)
ExactValue(kind, log) ==
  IF log = << >> THEN 0
  ELSE (IF Head(log).kind = kind THEN Head(log).quantity * Head(log).price ELSE 0)
       + ExactValue(kind, Tail(log))

C10_BuyThenSellRestoresCash ==
  [][(/\ last.kind = "Buy" /\ last.ret > 0
      /\ last'.kind = "Sell" /\ last'.name = last.name
      /\ last'.quantity = last.ret /\ last'.price = last.price) =>
       /\ cashBalance_' = last.cashBefore
       /\ ~last.heldBefore =>
            (last'.ret = last.ret /\ last.name \notin DOMAIN portfolio_')]_vars

\* the queue of a security, empty when it has none
QueueOf(map, name) == IF name \in DOMAIN map THEN map[name] ELSE << >>

\* (f x p + Q x P) / (Q + f) in double arithmetic, Q + f the true sum
AveragePrice(f, p, Q, P) ==
  DDiv(DAdd(Fin(FMul(ToDouble(f), p)), DMul(Fin(ToDouble(Q)), P)),
       Fin(ToDouble(Q + f)))

\* C11: a Buy that fills f > 0 shares of S at price p turns an entry of
\* quantity Q and price P into quantity Q + f and price
\* (f x p + Q x P) / (Q + f), makes the entry (S, f, p) when S was not held,
\* and appends the lot (S, f, p) at the back of S's queue.
C11_BuyUpdatesPosition ==
  [][(last'.kind = "Buy" /\ last'.ret > 0) =>
       LET S == last'.name
           f == last'.ret
           p == last'.price
       IN  /\ S \in DOMAIN portfolio_'
           /\ IF S \in DOMAIN portfolio_
              THEN /\ portfolio_'[S].quantity = portfolio_[S].quantity + f
                   /\ portfolio_'[S].price =
                        AveragePrice(f, p, portfolio_[S].quantity,
                                     portfolio_[S].price)
              ELSE portfolio_'[S] = SecurityPosition(S, f, Fin(p))
           /\ QueueOf(outstandingBuyOrderMap_', S) =
                Append(QueueOf(outstandingBuyOrderMap_, S),
                       Order("Buy", S, f, p))]_vars

\* the shares in the first i lots of a queue
RECURSIVE SharesUpTo(_, _)
SharesUpTo(queue, i) ==
  IF i = 0 THEN 0 ELSE queue[i].quantity + SharesUpTo(queue, i - 1)

\* the shares a sale of f shares takes from lot i when lots go oldest first
Taken(queue, f, i) ==
  LET before == SharesUpTo(queue, i - 1)
  IN  IF f <= before THEN 0 ELSE Min(queue[i].quantity, f - before)

\* the buy value of the shares taken from the first i lots: taken quantity
\* x the lot's buy price, summed oldest lot first in double arithmetic
RECURSIVE CostRemoved(_, _, _)
CostRemoved(queue, f, i) ==
  IF i = 0 THEN 0
  ELSE IF Taken(queue, f, i) = 0 THEN CostRemoved(queue, f, i - 1)
  ELSE FAdd(CostRemoved(queue, f, i - 1),
            FMul(ToDouble(Taken(queue, f, i)), queue[i].price))

\* new is old with its k oldest lots popped and at most the next one
\* reduced in place, f shares fewer in all
PoppedAndReduced(old, new, f, k) ==
  /\ Len(new) = Len(old) - k
  /\ \A i \in 1 .. k : Taken(old, f, i) = old[i].quantity
  /\ \A j \in 2 .. Len(new) : new[j] = old[k + j]
  /\ Len(new) > 0 =>
       /\ new[1] = [old[k + 1] EXCEPT !.quantity = new[1].quantity]
       /\ new[1].quantity > 0
       /\ new[1].quantity = old[k + 1].quantity - Taken(old, f, k + 1)
  /\ SumQuantities(old) - SumQuantities(new) = f

\* C12: a Sell that fills f > 0 shares takes exactly f shares from the
\* queue oldest lot first, popping the lots it uses up and reducing at most
\* one lot in place; when shares remain the average price becomes
\* (oldPrice x oldQty - costRemoved) / (oldQty - f), costRemoved being the
\* taken quantity x buy price of the lots, whatever the price of the sale.
C12_SellConsumesOldestFirst ==
  [][(last'.kind = "Sell" /\ last'.ret > 0) =>
       LET S == last'.name
           f == last'.ret
           old == QueueOf(outstandingBuyOrderMap_, S)
           new == QueueOf(outstandingBuyOrderMap_', S)
           Q == portfolio_[S].quantity
           P == portfolio_[S].price
       IN  /\ \E k \in 0 .. Len(old) : PoppedAndReduced(old, new, f, k)
           /\ Q - f > 0 =>
                /\ S \in DOMAIN portfolio_'
                /\ portfolio_'[S].quantity = Q - f
                /\ portfolio_'[S].price =
                     DDiv(DSub(DMul(P, Fin(ToDouble(Q))),
                               Fin(CostRemoved(old, f, Len(old)))),
                          Fin(ToDouble(Q - f)))]_vars

\* bought 1 and then 2 at another price, sold 2 at a third price: the
\* older lot is gone, the newer one is down to 1 share, 1 share is held
C12_Witness ==
  /\ Len(transactions_) = 3
  /\ transactions_[1].kind = "Buy" /\ transactions_[1].quantity = 1
  /\ transactions_[2].kind = "Buy" /\ transactions_[2].quantity = 2
  /\ transactions_[3].kind = "Sell" /\ transactions_[3].quantity = 2
  /\ transactions_[2].name = transactions_[1].name
  /\ transactions_[3].name = transactions_[1].name
  /\ transactions_[1].price > transactions_[2].price
  /\ transactions_[3].price # transactions_[2].price
  /\ last.kind = "Sell" /\ last.ret = 2
  /\ last.name \in DOMAIN portfolio_
  /\ portfolio_[last.name].quantity = 1
  /\ outstandingBuyOrderMap_[last.name] =
       <<[transactions_[2] EXCEPT !.quantity = 1]>>

\* C13: a Buy at price 0 fills the whole requested quantity whatever the
\* cash balance is, and leaves the cash balance as it was.
C13_FreeBuyFillsAll ==
  (last.kind = "Buy" /\ last.price = 0) =>
    (last.ret = last.quantity /\ cashBalance_ = last.cashBefore)

\* C14: no Sell evaluates the average-cost division with a zero divisor; a
\* Sell that fills the whole held quantity removes the entry without it.
C14_NoZeroDivisor == last.divisor # 0

\* C15: every entry of the portfolio has quantity > 0.
C15_EntriesHavePositiveQuantity ==
  \A name \in DOMAIN portfolio_ : portfolio_[name].quantity > 0

\* the value of the lots of a queue: quantity x buy price, summed oldest
\* lot first in double arithmetic
RECURSIVE LotsValue(_, _)
LotsValue(queue, i) ==
  IF i = 0 THEN 0
  ELSE FAdd(LotsValue(queue, i - 1),
            FMul(ToDouble(queue[i].quantity), queue[i].price))

\* C16: for every held security, portfolio price x portfolio quantity
\* equals the sum over the lots left in its queue of quantity x price.
C16_PriceIsAverageOfLots ==
  \A name \in DOMAIN portfolio_ :
    LET queue == QueueOf(outstandingBuyOrderMap_, name)
    IN  DMul(portfolio_[name].price, Fin(ToDouble(portfolio_[name].quantity)))
          = Fin(LotsValue(queue, Len(queue)))

\* every lot stored in a queue is a Buy with quantity > 0
LotsArePositiveBuys ==
  \A name \in DOMAIN outstandingBuyOrderMap_ :
    \A i \in 1 .. Len(outstandingBuyOrderMap_[name]) :
      /\ outstandingBuyOrderMap_[name][i].kind = "Buy"
      /\ outstandingBuyOrderMap_[name][i].quantity > 0

\* C17: every Sell that reaches HandleSell finds in the queue at least the
\* filled quantity, ends its loop with exactly the filled quantity removed
\* and never reads the front of an empty queue; every lot stored in a queue
\* is a Buy with quantity > 0.
C17_SellLoopRemovesFill ==
  [][/\ ~fault'
     /\ LotsArePositiveBuys'
     /\ (last'.kind = "Sell" /\ last'.heldBefore) =>
          LET old == QueueOf(outstandingBuyOrderMap_, last'.name)
              new == QueueOf(outstandingBuyOrderMap_', last'.name)
          IN  /\ SumQuantities(old) >= last'.ret
              /\ SumQuantities(old) - SumQuantities(new) = last'.ret]_vars

\* two lots bought and both used up by one sale: the loop has popped the
\* last lot and stopped on the emptied queue without reading its front
C17_Witness ==
  /\ ~fault
  /\ Len(transactions_) = 3
  /\ transactions_[1].kind = "Buy" /\ transactions_[2].kind = "Buy"
  /\ transactions_[2].name = transactions_[1].name
  /\ last.kind = "Sell" /\ last.name = transactions_[1].name
  /\ last.ret = transactions_[1].quantity + transactions_[2].quantity
  /\ outstandingBuyOrderMap_[last.name] = << >>

\* C18: a call for security S leaves the portfolio entry (its presence,
\* quantity and price) and the queue of every other security as they were.
C18_OtherSecuritiesUnchanged ==
  [][\A T \in Securities \ {last'.name} :
       /\ (T \in DOMAIN portfolio_') = (T \in DOMAIN portfolio_)
       /\ T \in DOMAIN portfolio_ => portfolio_'[T] = portfolio_[T]
       /\ (T \in DOMAIN outstandingBuyOrderMap_') =
            (T \in DOMAIN outstandingBuyOrderMap_)
       /\ T \in DOMAIN outstandingBuyOrderMap_ =>
            outstandingBuyOrderMap_'[T] = outstandingBuyOrderMap_[T]]_vars

\* a sale has removed the entry of its security and another security is
\* still held with its lots
C18_Witness ==
  /\ last.kind = "Sell" /\ last.ret > 0
  /\ last.name \notin DOMAIN portfolio_
  /\ \E T \in DOMAIN portfolio_ :
       /\ T # last.name
       /\ outstandingBuyOrderMap_[T] # << >>

\* C19: accumulating buys never wraps the quantity of a portfolio entry:
\* the held quantity of a security is never below the sum of the quantities
\* of the lots in its queue.
C19_QuantityNotBelowQueueSum ==
  \A name \in Securities : PortfolioQuantity(name) >= QueueQuantity(name)

====
